---- MODULE Spec2Model ----
(***************************************************************************)
(* A model of transcribe.py: the batch entry point, transcribe() and        *)
(* format_timestamp().                                                      *)
(*                                                                          *)
(* Time values are counted in ticks of 1/TicksPerSec second.  The values    *)
(* the engine reports and the progress indicator's position are Python      *)
(* floats: here a float is a tick count with at most FloatPrec significant  *)
(* bits, and float addition and subtraction round to the nearest such       *)
(* value, ties to even (IEEE 754 binary64 with the significand scaled down  *)
(* from 53 bits).  Strings are sequences of tokens: a literal of the source *)
(* is one token, digits and the characters of a segment's text are one      *)
(* token each.                                                              *)
(***************************************************************************)
EXTENDS Integers, Sequences, FiniteSets, TLC

VARIABLES
    audio_files,   \* the list the entry point iterates over
    idx,           \* position in audio_files of the transcribe() call in progress
    pc,            \* the next statement of the process
    proc,          \* the process: alive, exit code, cause of its end
    fs,            \* the file system: path -> [exists, data]
    engine,        \* what the engine returns for each audio file, as far as it has been pulled
    info,          \* transcribe(): info
    progress,      \* transcribe(): progress (tqdm), with the position before the last update
    output_lines,  \* transcribe(): output_lines
    fbuf,          \* transcribe(): what f.write() has buffered and the disk has not yet got
    stdout,        \* the lines printed so far
    did,           \* history: what has been done for each entry of audio_files
    snap,          \* history: the file system when the call in progress was entered
    seconds,       \* format_timestamp(): its argument
    result         \* format_timestamp(): its return value (<<>> before the call)

vars == <<audio_files, idx, pc, proc, fs, engine, info, progress, output_lines,
          fbuf, stdout, did, snap, seconds, result>>

---------------------------------------------------------------------------
(* Bounds of the model *)

FloatPrec == 3
MaxTime == 16
TicksPerSec == 2
MaxSegs == 3
MaxSegsTwice == 2
MaxSegsBatch == 1

---------------------------------------------------------------------------
(* Floating-point arithmetic *)

RECURSIVE Pow2(_)
Pow2(n) == IF n = 0 THEN 1 ELSE 2 * Pow2(n - 1)

Abs(x) == IF x < 0 THEN -x ELSE x

\* The spacing of the floats around magnitude a.
RECURSIVE Quantum(_, _)
Quantum(a, q) == IF a < q * Pow2(FloatPrec) THEN q ELSE Quantum(a, 2 * q)

\* Round to nearest, ties to even.
FRound(x) ==
    LET a  == Abs(x)
        q  == Quantum(a, 1)
        lo == (a \div q) * q
        r  == a - lo
        v  == IF 2 * r < q THEN lo
              ELSE IF 2 * r > q THEN lo + q
              ELSE IF (lo \div q) % 2 = 0 THEN lo ELSE lo + q
    IN  IF x < 0 THEN -v ELSE v

Representable(x) == FRound(x) = x

\* Mutant: the operands of the subtraction are swapped.
FSub_Swapped(a, b) == FRound(b - a)

FSub(a, b) == FRound(a - b)

FAdd(a, b) == FRound(a + b)

\* The floats an engine may report as a time.
Times == {t \in 0..MaxTime : Representable(t)}

---------------------------------------------------------------------------
(* Strings *)

Digit(d) == <<"0", "1", "2", "3", "4", "5", "6", "7", "8", "9">>[d + 1]

RECURSIVE Digits(_)
Digits(n) == IF n < 10 THEN <<Digit(n)>> ELSE Digits(n \div 10) \o <<Digit(n % 10)>>

\* The format specification 02d: at least two digits, padded with zeros.
Pad2(n) == IF n < 10 THEN <<"0">> \o Digits(n) ELSE Digits(n)

Whitespace == {" ", "\t", "\n"}

RECURSIVE LStrip(_)
LStrip(s) == IF s # <<>> /\ Head(s) \in Whitespace THEN LStrip(Tail(s)) ELSE s

RECURSIVE RStrip(_)
RStrip(s) ==
    IF s # <<>> /\ s[Len(s)] \in Whitespace THEN RStrip(SubSeq(s, 1, Len(s) - 1)) ELSE s

Strip(s) == RStrip(LStrip(s))

RECURSIVE Join(_, _)
Join(lines, sep) ==
    IF lines = <<>> THEN <<>>
    ELSE IF Len(lines) = 1 THEN lines[1]
    ELSE lines[1] \o <<sep>> \o Join(Tail(lines), sep)

Rule60(c) == IF c = "=" THEN "============================================================"
             ELSE "------------------------------------------------------------"

---------------------------------------------------------------------------
(* format_timestamp *)

\* Mutant: the seconds are rounded to the nearest instead of truncated.
format_timestamp_Rounds(secs) ==
    LET h == secs \div (3600 * TicksPerSec)
        m == (secs % (3600 * TicksPerSec)) \div (60 * TicksPerSec)
        s == (2 * (secs % (60 * TicksPerSec)) + TicksPerSec) \div (2 * TicksPerSec)
    IN  Pad2(h) \o <<":">> \o Pad2(m) \o <<":">> \o Pad2(s)

format_timestamp(secs) ==
    LET h == secs \div (3600 * TicksPerSec)
        m == (secs % (3600 * TicksPerSec)) \div (60 * TicksPerSec)
        s == (secs % (60 * TicksPerSec)) \div TicksPerSec
    IN  Pad2(h) \o <<":">> \o Pad2(m) \o <<":">> \o Pad2(s)

---------------------------------------------------------------------------
(* Paths and the file system *)

Dir == "~/Downloads"

AudioPath(stem) == [dir |-> Dir, stem |-> stem, suffix |-> ".m4a"]

AudioFiles == <<AudioPath("Helene en AnneMarie"), AudioPath("Joke Swiebel")>>

Paths == {[dir |-> Dir, stem |-> AudioFiles[i].stem, suffix |-> x] :
             i \in 1..Len(AudioFiles), x \in {".m4a", ".txt", ".m4a.txt"}}

with_suffix(p, suffix) == [p EXCEPT !.suffix = suffix]

PathName(p) == <<p.stem, p.suffix>>

PathStr(p) == <<p.dir, "/", p.stem, p.suffix>>

Absent == [exists |-> FALSE, data |-> <<>>]

File(data) == [exists |-> TRUE, data |-> data]

AudioData == File(<<"audio">>)

StaleData == File(<<"stale", "\n">>)

path == audio_files[idx]

output_path == with_suffix(path, ".txt")

---------------------------------------------------------------------------
(* What the engine and the progress indicator are taken to do *)

\* The texts a segment may carry: padded, with inner whitespace, whitespace only.
Texts == {<<" ", "h", "i", " ">>, <<"o", " ", "k">>, <<" ", " ">>}

BatchTexts == {<<" ", "h", "i", " ">>, <<"o", " ", "k">>}

CallTexts == {<<" ", "h", "i", " ">>}

CoarseEnds == {5, 14}

CoarseDurations == {5, 14}

CallDurations == {MaxTime - 2}

NoInfo == [language |-> "", language_probability |-> 0, duration |-> 0]

Unpulled == [duration |-> -1, segs |-> <<>>, complete |-> FALSE]

NoProgress == [state |-> "none", n |-> 0, total |-> 0, prev |-> 0]

tqdm(total) == [state |-> "open", n |-> 0, total |-> total, prev |-> 0]

\* Mutant: the update sets the position to its argument instead of adding it.
tqdm_update_Assign(t, delta) == [t EXCEPT !.prev = t.n, !.n = delta]

tqdm_update(t, delta) == [t EXCEPT !.prev = t.n, !.n = FAdd(t.n, delta)]

\* Mutant: closing fills the indicator up to its total.
tqdm_close_Fill(t) == [t EXCEPT !.state = "closed", !.n = t.total]

tqdm_close(t) == [t EXCEPT !.state = "closed"]

\* The format specification .2f of a probability given in hundredths.
Fixed2(c) == Digits(c \div 100) \o <<".">> \o Pad2(c % 100)

Emit(line) == stdout' = Append(stdout, line)

Mark(events) == did' = [did EXCEPT ![idx] = @ \cup events]

\* Mutant: the entry point contains the failure and goes on with the next file.
Uncaught_Contained(cause) ==
    /\ UNCHANGED proc
    /\ pc' = "separator"
    /\ Mark({"failed"})

\* An exception nobody catches: a traceback and exit status 1.
Uncaught(cause) ==
    /\ proc' = [alive |-> FALSE, code |-> 1, cause |-> cause]
    /\ pc' = "exited"
    /\ Mark({"failed"})

---------------------------------------------------------------------------
(* transcribe() *)

\* Mutant: the message is printed but the process is not ended.
CheckExists_NoExit ==
    /\ pc = "check"
    /\ snap' = fs
    /\ IF ~fs[path].exists
       THEN /\ Emit(<<"Bestand niet gevonden: ">> \o PathStr(path))
            /\ Mark({"checked", "failed"})
            /\ UNCHANGED proc
       ELSE /\ Mark({"checked"})
            /\ UNCHANGED <<stdout, proc>>
    /\ pc' = "load"
    /\ UNCHANGED <<audio_files, idx, fs, engine, info, progress, output_lines, fbuf,
                   seconds, result>>

CheckExists ==
    /\ pc = "check"
    /\ snap' = fs
    /\ IF ~fs[path].exists
       THEN /\ Emit(<<"Bestand niet gevonden: ">> \o PathStr(path))
            /\ proc' = [alive |-> FALSE, code |-> 1, cause |-> "sys.exit"]
            /\ pc' = "exited"
            /\ Mark({"checked", "failed"})
       ELSE /\ pc' = "load"
            /\ Mark({"checked"})
            /\ UNCHANGED <<stdout, proc>>
    /\ UNCHANGED <<audio_files, idx, fs, engine, info, progress, output_lines, fbuf,
                   seconds, result>>

LoadModel ==
    /\ pc = "load"
    /\ Emit(<<"Model laden (", "large-v3", ")...">>)
    /\ Mark({"loaded"})
    /\ pc' = "transcribe"
    /\ UNCHANGED <<audio_files, idx, proc, fs, engine, info, progress, output_lines,
                   fbuf, snap, seconds, result>>

\* WhisperModel(...) raises.
LoadModelFail ==
    /\ pc = "load"
    /\ Emit(<<"Model laden (", "large-v3", ")...">>)
    /\ Uncaught("engine")
    /\ UNCHANGED <<audio_files, idx, fs, engine, info, progress, output_lines, fbuf,
                   snap, seconds, result>>

\* Mutant: the output file is opened before the segments are consumed.
StartTranscribe_OpensOutput(durs) ==
    /\ pc = "transcribe"
    /\ \E d \in IF engine[path].duration = -1 THEN durs ELSE {engine[path].duration} :
          /\ engine' = [engine EXCEPT ![path].duration = d]
          /\ info' = [language |-> "nl", language_probability |-> 97, duration |-> d]
          /\ progress' = tqdm(d)
          /\ stdout' = stdout \o
                <<  <<"Transcriberen: ">> \o PathName(path),
                    <<"Taal gedetecteerd: ", "nl", " (waarschijnlijkheid: ">>
                        \o Fixed2(97) \o <<")">>,
                    <<"Duur: ">> \o format_timestamp(d),
                    <<Rule60("-")>>  >>
    /\ output_lines' = <<>>
    /\ fs' = [fs EXCEPT ![output_path] = File(<<>>)]
    /\ Mark({"transcribed", "progress"})
    /\ pc' = "loop"
    /\ UNCHANGED <<audio_files, idx, proc, fbuf, snap, seconds, result>>

StartTranscribe(durs) ==
    /\ pc = "transcribe"
    /\ \E d \in IF engine[path].duration = -1 THEN durs ELSE {engine[path].duration} :
          /\ engine' = [engine EXCEPT ![path].duration = d]
          /\ info' = [language |-> "nl", language_probability |-> 97, duration |-> d]
          /\ progress' = tqdm(d)
          /\ stdout' = stdout \o
                <<  <<"Transcriberen: ">> \o PathName(path),
                    <<"Taal gedetecteerd: ", "nl", " (waarschijnlijkheid: ">>
                        \o Fixed2(97) \o <<")">>,
                    <<"Duur: ">> \o format_timestamp(d),
                    <<Rule60("-")>>  >>
    /\ output_lines' = <<>>
    /\ Mark({"transcribed", "progress"})
    /\ pc' = "loop"
    /\ UNCHANGED <<audio_files, idx, proc, fs, fbuf, snap, seconds, result>>

\* model.transcribe(...) raises.
StartTranscribeFail ==
    /\ pc = "transcribe"
    /\ Emit(<<"Transcriberen: ">> \o PathName(path))
    /\ Uncaught("engine")
    /\ UNCHANGED <<audio_files, idx, fs, engine, info, progress, output_lines, fbuf,
                   snap, seconds, result>>

\* Mutant: the text is not stripped.
FormatLine_NoStrip(segment) ==
    <<"[">> \o format_timestamp(segment.start) \o <<" -> ">>
        \o format_timestamp(segment.end) \o <<"]">> \o <<"  ">> \o segment.text

FormatLine(segment) ==
    <<"[">> \o format_timestamp(segment.start) \o <<" -> ">>
        \o format_timestamp(segment.end) \o <<"]">> \o <<"  ">> \o Strip(segment.text)

\* What the engine's generator may yield as its k-th segment for the file.
Yield(k, maxSegs, ends, texts) ==
    LET known == engine[path].segs IN
    IF k <= Len(known) THEN {known[k]}
    ELSE IF engine[path].complete \/ Len(known) >= maxSegs THEN {}
    ELSE {[start |-> IF known = <<>> THEN 0 ELSE known[Len(known)].end,
           end |-> e, text |-> t] : e \in ends, t \in texts}

\* One turn of the loop: the generator yields a segment.
NextSegment(maxSegs, ends, texts) ==
    /\ pc = "loop"
    /\ \E segment \in Yield(Len(output_lines) + 1, maxSegs, ends, texts) :
          /\ engine' = [engine EXCEPT ![path].segs =
                           IF Len(output_lines) < Len(@) THEN @ ELSE Append(@, segment)]
          /\ output_lines' = Append(output_lines, FormatLine(segment))
          /\ progress' = tqdm_update(progress, FSub(segment.end, progress.n))
    /\ Mark({"segment"})
    /\ UNCHANGED <<audio_files, idx, pc, proc, fs, info, fbuf, stdout, snap, seconds,
                   result>>

\* The generator is exhausted: the loop ends.
SegmentsExhausted ==
    /\ pc = "loop"
    /\ Len(output_lines) = Len(engine[path].segs)
    /\ engine' = [engine EXCEPT ![path].complete = TRUE]
    /\ pc' = "close"
    /\ UNCHANGED <<audio_files, idx, proc, fs, info, progress, output_lines, fbuf,
                   stdout, did, snap, seconds, result>>

\* The generator raises.
SegmentFail ==
    /\ pc = "loop"
    /\ Uncaught("engine")
    /\ UNCHANGED <<audio_files, idx, fs, engine, info, progress, output_lines, fbuf,
                   stdout, snap, seconds, result>>

CloseProgress ==
    /\ pc = "close"
    /\ progress' = tqdm_close(progress)
    /\ pc' = "open"
    /\ UNCHANGED <<audio_files, idx, proc, fs, engine, info, output_lines, fbuf,
                   stdout, did, snap, seconds, result>>

\* Mutant: the file is opened for appending, "a".
OpenOutput_Append ==
    /\ pc = "open"
    /\ fs' = [fs EXCEPT ![output_path] = File(@.data)]
    /\ fbuf' = <<>>
    /\ Mark({"opened"})
    /\ pc' = "w1"
    /\ UNCHANGED <<audio_files, idx, proc, engine, info, progress, output_lines,
                   stdout, snap, seconds, result>>

\* open(output_path, "w"): the file is created, or truncated.
OpenOutput ==
    /\ pc = "open"
    /\ fs' = [fs EXCEPT ![output_path] = File(<<>>)]
    /\ fbuf' = <<>>
    /\ Mark({"opened"})
    /\ pc' = "w1"
    /\ UNCHANGED <<audio_files, idx, proc, engine, info, progress, output_lines,
                   stdout, snap, seconds, result>>

\* open(...) raises (no permission, no such directory).
OpenFail ==
    /\ pc = "open"
    /\ Uncaught("io")
    /\ UNCHANGED <<audio_files, idx, fs, engine, info, progress, output_lines, fbuf,
                   stdout, snap, seconds, result>>

WritePcs == <<"w1", "w2", "w3", "w4", "w5", "fclose">>

\* The argument of the k-th f.write(...).
Chunk(k) ==
    CASE k = 1 -> <<"Transcriptie: ">> \o PathName(path) \o <<"\n">>
      [] k = 2 -> <<"Taal: ", info.language, "\n">>
      [] k = 3 -> <<"Duur: ">> \o format_timestamp(info.duration) \o <<"\n">>
      [] k = 4 -> <<Rule60("="), "\n", "\n">>
      [] k = 5 -> Join(output_lines, "\n")

FWrite ==
    /\ \E k \in 1..5 :
          /\ pc = WritePcs[k]
          /\ fbuf' = fbuf \o Chunk(k)
          /\ pc' = WritePcs[k + 1]
    /\ Mark({"written"})
    /\ UNCHANGED <<audio_files, idx, proc, fs, engine, info, progress, output_lines,
                   stdout, snap, seconds, result>>

FileIsOpen == \E k \in 1..6 : pc = WritePcs[k]

\* The buffer is full: what is buffered goes to the disk.
BufferFlush ==
    /\ FileIsOpen
    /\ fbuf # <<>>
    /\ fs' = [fs EXCEPT ![output_path].data = @ \o fbuf]
    /\ fbuf' = <<>>
    /\ UNCHANGED <<audio_files, idx, pc, proc, engine, info, progress, output_lines,
                   stdout, did, snap, seconds, result>>

\* A write to the disk fails after n tokens (the disk is full).
DiskFail ==
    /\ FileIsOpen
    /\ fbuf # <<>>
    /\ \E n \in 0..(Len(fbuf) - 1) :
          fs' = [fs EXCEPT ![output_path].data = @ \o SubSeq(fbuf, 1, n)]
    /\ fbuf' = <<>>
    /\ Uncaught("io")
    /\ UNCHANGED <<audio_files, idx, engine, info, progress, output_lines, stdout,
                   snap, seconds, result>>

\* Mutant: the file is closed without what is still buffered.
CloseFile_NoFlush ==
    /\ pc = "fclose"
    /\ fbuf' = <<>>
    /\ Mark({"saved"})
    /\ pc' = "report"
    /\ UNCHANGED <<audio_files, idx, proc, fs, engine, info, progress, output_lines,
                   stdout, snap, seconds, result>>

\* The end of the with block: the rest of the buffer is written, the file closed.
CloseFile ==
    /\ pc = "fclose"
    /\ fs' = [fs EXCEPT ![output_path].data = @ \o fbuf]
    /\ fbuf' = <<>>
    /\ Mark({"saved"})
    /\ pc' = "report"
    /\ UNCHANGED <<audio_files, idx, proc, engine, info, progress, output_lines,
                   stdout, snap, seconds, result>>

Report ==
    /\ pc = "report"
    /\ Emit(<<"\n", "Opgeslagen: ">> \o PathStr(output_path))
    /\ pc' = "separator"
    /\ UNCHANGED <<audio_files, idx, proc, fs, engine, info, progress, output_lines,
                   fbuf, did, snap, seconds, result>>

---------------------------------------------------------------------------
(* The entry point *)

MainSeparator ==
    /\ pc = "separator"
    /\ Emit(<<"\n", Rule60("="), "\n">>)
    /\ IF idx < Len(audio_files)
       THEN /\ idx' = idx + 1
            /\ pc' = "check"
            /\ UNCHANGED proc
       ELSE /\ pc' = "done"
            /\ proc' = [alive |-> FALSE, code |-> 0, cause |-> "end"]
            /\ UNCHANGED idx
    /\ UNCHANGED <<audio_files, fs, engine, info, progress, output_lines, fbuf, did,
                   snap, seconds, result>>

\* The process starts on the list `files`, in the file system `files0`.
Start(files, files0, secs) ==
    /\ audio_files = files
    /\ idx = 1
    /\ pc = "check"
    /\ proc = [alive |-> TRUE, code |-> 0, cause |-> ""]
    /\ fs = files0
    /\ engine = [p \in {files[i] : i \in 1..Len(files)} |-> Unpulled]
    /\ info = NoInfo
    /\ progress = NoProgress
    /\ output_lines = <<>>
    /\ fbuf = <<>>
    /\ stdout = <<>>
    /\ did = [i \in 1..Len(files) |-> {}]
    /\ snap = files0
    /\ seconds = secs
    /\ result = <<>>

\* A file system: which audio files exist, which output files hold something old.
Disk(present, stale) ==
    [q \in Paths |-> IF q \in present THEN AudioData
                     ELSE IF q \in stale THEN StaleData ELSE Absent]

Inputs == {AudioFiles[i] : i \in 1..Len(AudioFiles)}

\* The script, run on its hard-coded list.
Init ==
    \E present \in SUBSET Inputs :
        Start(AudioFiles, Disk(present, {}), 0)

Next ==
    \/ CheckExists
    \/ LoadModel
    \/ LoadModelFail
    \/ StartTranscribe(CoarseDurations)
    \/ StartTranscribeFail
    \/ NextSegment(MaxSegsBatch, CoarseEnds, BatchTexts)
    \/ SegmentsExhausted
    \/ SegmentFail
    \/ CloseProgress
    \/ OpenOutput
    \/ OpenFail
    \/ FWrite
    \/ BufferFlush
    \/ DiskFail
    \/ CloseFile
    \/ Report
    \/ MainSeparator

Spec == Init /\ [][Next]_vars

\* transcribe() called twice on one file.
InitTwice ==
    \E present \in SUBSET {AudioFiles[1]}, stale \in SUBSET {with_suffix(AudioFiles[1], ".txt")} :
        Start(<<AudioFiles[1], AudioFiles[1]>>, Disk(present, stale), 0)

NextTwice ==
    \/ CheckExists
    \/ LoadModel
    \/ LoadModelFail
    \/ StartTranscribe(CoarseDurations)
    \/ StartTranscribeFail
    \/ NextSegment(MaxSegsTwice, CoarseEnds, Texts)
    \/ SegmentsExhausted
    \/ SegmentFail
    \/ CloseProgress
    \/ OpenOutput
    \/ OpenFail
    \/ FWrite
    \/ BufferFlush
    \/ DiskFail
    \/ CloseFile
    \/ Report
    \/ MainSeparator

SpecTwice == InitTwice /\ [][NextTwice]_vars

\* One call of transcribe(), the engine reporting any float times; the
\* transcript fits the write buffer and the disk does not fail.
InitCall ==
    \E present \in SUBSET {AudioFiles[1]} :
        Start(<<AudioFiles[1]>>, Disk(present, {}), 0)

NextCall ==
    \/ CheckExists
    \/ LoadModel
    \/ LoadModelFail
    \/ StartTranscribe(CallDurations)
    \/ StartTranscribeFail
    \/ NextSegment(MaxSegs, Times, CallTexts)
    \/ SegmentsExhausted
    \/ SegmentFail
    \/ CloseProgress
    \/ OpenOutput
    \/ FWrite
    \/ CloseFile
    \/ Report
    \/ MainSeparator

SpecCall == InitCall /\ [][NextCall]_vars

---------------------------------------------------------------------------
(* format_timestamp() called on its own *)

FmtHours == {0, 1, 23, 24, 25, 99, 100}

FmtInputs ==
    {((h * 60 + m) * 60 + s) * TicksPerSec + f :
        h \in FmtHours, m \in {0, 1, 59}, s \in {0, 1, 59}, f \in {0, TicksPerSec - 1}}

InitFmt == \E secs \in FmtInputs : Start(<<>>, Disk({}, {}), secs)

FormatCall ==
    /\ result = <<>>
    /\ result' = format_timestamp(seconds)
    /\ UNCHANGED <<audio_files, idx, pc, proc, fs, engine, info, progress,
                   output_lines, fbuf, stdout, did, snap, seconds>>

NextFmt == FormatCall

SpecFmt == InitFmt /\ [][NextFmt]_vars

---------------------------------------------------------------------------
(* What the claims are stated with *)

\* The fields of s between the separators sep.
RECURSIVE SplitOn(_, _)
SplitOn(s, sep) ==
    IF s = <<>> THEN <<>>
    ELSE LET at == {i \in 1..Len(s) : s[i] = sep} IN
         IF at = {} THEN <<s>>
         ELSE LET i == CHOOSE j \in at : \A k \in at : j <= k
              IN  <<SubSeq(s, 1, i - 1)>> \o SplitOn(SubSeq(s, i + 1, Len(s)), sep)

\* s without its first n lines.
RECURSIVE DropLines(_, _)
DropLines(s, n) ==
    IF n = 0 \/ s = <<>> THEN s
    ELSE DropLines(Tail(s), IF Head(s) = "\n" THEN n - 1 ELSE n)

IsDigit(c) == \E d \in 0..9 : Digit(d) = c

RECURSIVE Value(_)
Value(ds) ==
    IF ds = <<>> THEN 0
    ELSE 10 * Value(SubSeq(ds, 1, Len(ds) - 1))
            + (CHOOSE d \in 0..9 : Digit(d) = ds[Len(ds)])

\* s from its first to its last token that is not whitespace.
Trimmed(s) ==
    LET ink == {i \in 1..Len(s) : s[i] \notin Whitespace} IN
    IF ink = {} THEN <<>>
    ELSE SubSeq(s, CHOOSE i \in ink : \A j \in ink : i <= j,
                   CHOOSE i \in ink : \A j \in ink : j <= i)

IsPrefix(a, b) == Len(a) <= Len(b) /\ a = SubSeq(b, 1, Len(a))

ExpectedLine(segment) ==
    <<"[">> \o format_timestamp(segment.start) \o <<" -> ">>
        \o format_timestamp(segment.end) \o <<"]", "  ">> \o Trimmed(segment.text)

ExpectedLines(p) == [k \in 1..Len(engine[p].segs) |-> ExpectedLine(engine[p].segs[k])]

\* The layout of the transcript of audio file p.
ExpectedTranscript(p) ==
    <<"Transcriptie: ", p.stem, p.suffix, "\n", "Taal: ", "nl", "\n", "Duur: ">>
        \o format_timestamp(engine[p].duration)
        \o <<"\n", Rule60("="), "\n", "\n">>
        \o Join(ExpectedLines(p), "\n")

Ordered(segs) == \A k \in 1..(Len(segs) - 1) : segs[k].end <= segs[k + 1].end

StrictlyOrdered(segs) == \A k \in 1..(Len(segs) - 1) : segs[k].end < segs[k + 1].end

Missing(i) == ~fs[audio_files[i]].exists

OutputOf(i) == fs[with_suffix(audio_files[i], ".txt")]

\* The end of the segment the loop consumed last.
LastEnd == engine[path].segs[Len(output_lines)].end

---------------------------------------------------------------------------
(* The claims *)

\* C1: a missing input ends the process with the error message and exit
\* status 1 before anything else is done for it: no model is loaded, the
\* engine is not called, no progress indicator is made, no file is written.
C1_MissingInputExitsFirst ==
    \A i \in DOMAIN did :
        Missing(i) =>
            /\ did[i] \subseteq {"checked", "failed"}
            /\ "checked" \in did[i] =>
                  /\ ~proc.alive /\ proc.code = 1 /\ proc.cause = "sys.exit"
                  /\ pc = "exited" /\ idx = i
                  /\ stdout[Len(stdout)]
                        = <<"Bestand niet gevonden: ">> \o PathStr(audio_files[i])
                  /\ fs = snap
                  /\ progress.state # "open"
                  /\ fbuf = <<>>

C1_Witness ==
    /\ Missing(2) /\ "checked" \in did[2]
    /\ "saved" \in did[1]

\* C2 as claimed: after an ordered segment sequence is consumed, the closed
\* indicator stands at the total duration.
C2_FinalIsDuration ==
    (progress.state = "closed" /\ Ordered(engine[path].segs))
        => progress.n = progress.total

\* C2 as amended: the closed indicator stands where the last update left it:
\* at 0 when there was no segment, else at the last segment's end up to one
\* spacing of the floats there, and at that end exactly after a single segment.
C2_FinalIsLastUpdate ==
    (progress.state = "closed" /\ Ordered(engine[path].segs)) =>
        LET segs == engine[path].segs IN
        IF segs = <<>> THEN progress.n = 0
        ELSE /\ Abs(progress.n - segs[Len(segs)].end) <= Quantum(segs[Len(segs)].end, 1)
             /\ Len(segs) = 1 => progress.n = segs[1].end

C2_Witness ==
    /\ progress.state = "closed"
    /\ Len(engine[path].segs) >= 2
    /\ Ordered(engine[path].segs)
    /\ progress.n < progress.total

\* C3 as claimed: while segments with non-decreasing ends are consumed, the
\* open indicator's position never decreases from one state to the next.
C3_NeverRegresses ==
    [][(progress.state = "open" /\ progress'.state = "open"
            /\ Ordered(engine'[path].segs))
          => progress'.n >= progress.n]_vars

\* C3 as amended: while segments with strictly increasing ends are consumed,
\* the open indicator's position never decreases from one state to the next.
C3_NeverRegressesStrict ==
    [][(progress.state = "open" /\ progress'.state = "open"
            /\ StrictlyOrdered(engine'[path].segs))
          => progress'.n >= progress.n]_vars

C3_Witness ==
    /\ progress.state = "open"
    /\ Len(output_lines) >= 2
    /\ StrictlyOrdered(engine[path].segs)
    /\ progress.n > progress.prev
    /\ progress.n # LastEnd

\* C4: format_timestamp(t) is HH:MM:SS with HH the whole hours (not wrapped
\* at 24, at least two digits), MM and SS two digits below 60, all truncated;
\* 0 gives 00:00:00 and 3661 gives 01:01:01.
C4_FormatTimestamp ==
    result # <<>> =>
        LET whole == seconds \div TicksPerSec
            f     == SplitOn(result, ":")
        IN  /\ Len(f) = 3
            /\ \A i \in 1..3 : \A k \in 1..Len(f[i]) : IsDigit(f[i][k])
            /\ Value(f[1]) = whole \div 3600
            /\ Value(f[2]) = (whole \div 60) % 60
            /\ Value(f[3]) = whole % 60
            /\ Len(f[1]) >= 2 /\ (Len(f[1]) > 2 => f[1][1] # "0")
            /\ Len(f[2]) = 2 /\ Len(f[3]) = 2
            /\ seconds = 0 => result = <<"0", "0", ":", "0", "0", ":", "0", "0">>
            /\ seconds = 3661 * TicksPerSec
                  => result = <<"0", "1", ":", "0", "1", ":", "0", "1">>

C4_Witness ==
    /\ result # <<>>
    /\ seconds = ((25 * 60 + 59) * 60 + 59) * TicksPerSec + TicksPerSec - 1

C6_SecondRunReplaces ==
    (idx = 2 /\ "saved" \in did[2]) =>
        /\ fs = snap
        /\ OutputOf(2) = File(ExpectedTranscript(path))
        /\ {q \in Paths : fs[q].exists} = {path, output_path}

C6_Witness ==
    /\ idx = 2 /\ "saved" \in did[2]
    /\ Len(engine[path].segs) >= 1

\* C7 as claimed: at every moment the output file holds what it held before
\* the call or the complete transcript.
C7_AtomicFlush ==
    \/ OutputOf(idx) = snap[output_path]
    \/ OutputOf(idx) = File(ExpectedTranscript(path))

\* C7 as amended: at every moment the output file holds what it held before
\* the call or a prefix (possibly empty) of the complete transcript, and the
\* complete transcript once the file has been closed.
C7_PrefixOfTranscript ==
    /\ \/ OutputOf(idx) = snap[output_path]
       \/ /\ OutputOf(idx).exists
          /\ IsPrefix(OutputOf(idx).data, ExpectedTranscript(path))
    /\ "saved" \in did[idx] => OutputOf(idx) = File(ExpectedTranscript(path))

C7_Witness ==
    /\ proc.cause = "io"
    /\ snap[output_path] = StaleData
    /\ Len(OutputOf(idx).data) > 4
    /\ Len(OutputOf(idx).data) < Len(ExpectedTranscript(path))

\* C8: the files are handled one after the other in list order, and a failure
\* for one of them ends the process: no later file is touched, and the
\* transcripts of the earlier files stay as written.
C8_FailureEndsBatch ==
    /\ \A i \in DOMAIN did :
          did[i] # {} => /\ i <= idx
                         /\ \A j \in 1..(i - 1) : "saved" \in did[j]
    /\ \A i \in DOMAIN did :
          "failed" \in did[i] =>
              /\ ~proc.alive /\ proc.code = 1 /\ pc = "exited" /\ idx = i
              /\ \A j \in DOMAIN did : j > i => did[j] = {}
              /\ \A j \in 1..(i - 1) :
                    OutputOf(j) = File(ExpectedTranscript(audio_files[j]))

C8_Witness ==
    /\ "failed" \in did[2]
    /\ proc.cause = "engine"
    /\ OutputOf(1).exists

\* C9 as claimed: the open indicator stands at 0 before the first segment
\* and then exactly at the end of the segment consumed last.
C9_PositionIsLastEnd ==
    progress.state = "open" =>
        progress.n = IF output_lines = <<>> THEN 0 ELSE LastEnd

\* C9 as amended: the open indicator stands at 0 before the first segment and
\* then at the end of the segment consumed last up to the rounding of the
\* update: exactly there when the difference to the position before is a
\* float, else within one spacing of the floats at that difference.
C9_PositionTracksLastEnd ==
    progress.state = "open" =>
        IF output_lines = <<>> THEN progress.n = 0
        ELSE LET d == LastEnd - progress.prev IN
             /\ Representable(d) => progress.n = LastEnd
             /\ Abs(progress.n - LastEnd) <= Quantum(Abs(d), 1)

C9_Witness ==
    /\ progress.state = "open"
    /\ Len(output_lines) = 2
    /\ ~Ordered(engine[path].segs)
    /\ progress.n # LastEnd

\* C10: the output file is opened only once the segments are exhausted and
\* the indicator is closed, and a failure of the engine leaves the file
\* system as the call found it.
C10_WriteOnlyAfterExhaustion ==
    /\ (FileIsOpen \/ fs # snap) =>
          /\ progress.state = "closed"
          /\ engine[path].complete
          /\ Len(output_lines) = Len(engine[path].segs)
    /\ proc.cause = "engine" => fs = snap

C10_Witness ==
    /\ proc.cause = "engine"
    /\ "segment" \in did[idx]
    /\ OutputOf(idx) = StaleData

====
